---- MODULE Spec2Model ----
(***************************************************************************)
(* The per-peer TCP transport of stellar-core (src/overlay/TCPPeer.cpp):   *)
(* the write pump, the read pipeline, drop and the two-step shutdown, run  *)
(* by a single-threaded reactor.  One action is one handler run to its     *)
(* end; the only handler that is split is startRead, whose synchronous     *)
(* drain loop is one action per iteration (no other handler can run in     *)
(* between: every other action waits for rpc = "idle").                    *)
(***************************************************************************)
EXTENDS Integers, Sequences, FiniteSets, TLC

\* ---- bounds of the model
MaxMsgs == 3        \* sendMessage calls made on the peer (accepted or not)
MaxFrames == 2      \* frames the remote puts on the inbound stream
MaxDrain == 2       \* iterations of the drain loop before the yield timer must expire
MaxHello == 2       \* frames of a remote that only answers the handshake

\* ---- program constants
MAX_UNAUTH_MESSAGE_SIZE == 4096
MAX_MESSAGE_SIZE == 16777216
BUFSZ == 262144
HDRSZ == 4

VARIABLES
    mState,             \* Peer::mState
    mWriteQueue,        \* queue of outbound records (front first)
    mWriting,
    mDelayedShutdown,
    mShutdownScheduled,
    mIncomingHeader,    \* vector<uint8_t>
    mIncomingBody,      \* [size, hdr]: size of the vector, stream offset of the header it was sized for
    mIdleTimer,         \* TRUE while the idle timer is armed
    connecting,         \* the async_connect of initiate() is outstanding
    writeOps,           \* outstanding async_write / async_flush operations, in issue order
    readOps,            \* outstanding async_read operations, in issue order
    posted,             \* closures posted with postOnMainThread, FIFO
    sockShutdowns,      \* times socket.shutdown(both) ran
    sockCloses,         \* times socket.close() ran
    removePeerCalls,    \* times OverlayManager::removePeer(this) was called
    sent,               \* sendMessage calls made so far (the next message is sent + 1)
    enqueued,           \* messages accepted by sendMessage, in order
    issued,             \* messages handed to async_write, in order
    written,            \* messages whose async_write completed without error, in order
    flushed,            \* how many of the written messages a successful flush pushed to the socket
    inStream,           \* frames the remote has sent, in order
    rdPos,              \* bytes of the inbound stream the peer has consumed
    bufEnd,             \* bytes of the inbound stream pulled into the buffered stream
    dispatched,         \* bodies handed to recvMessage, in order
    lastHdr,            \* the last header decoded by getIncomingMsgLength
    trace,              \* log lines, meters and failures seen so far
    rpc,                \* "idle", or "drain" while startRead's loop is running
    drained             \* iterations of the running drain loop

vars == <<mState, mWriteQueue, mWriting, mDelayedShutdown, mShutdownScheduled,
          mIncomingHeader, mIncomingBody, mIdleTimer, connecting, writeOps, readOps,
          posted, sockShutdowns, sockCloses, removePeerCalls, sent, enqueued, issued,
          written, flushed, inStream, rdPos, bufEnd, dispatched, lastHdr, trace, rpc,
          drained>>

\* The whole state as one record, so that the handlers compose as functions.
Self ==
    [mState |-> mState, mWriteQueue |-> mWriteQueue, mWriting |-> mWriting,
     mDelayedShutdown |-> mDelayedShutdown, mShutdownScheduled |-> mShutdownScheduled,
     mIncomingHeader |-> mIncomingHeader, mIncomingBody |-> mIncomingBody,
     mIdleTimer |-> mIdleTimer, connecting |-> connecting, writeOps |-> writeOps,
     readOps |-> readOps, posted |-> posted, sockShutdowns |-> sockShutdowns,
     sockCloses |-> sockCloses, removePeerCalls |-> removePeerCalls, sent |-> sent,
     enqueued |-> enqueued, issued |-> issued, written |-> written, flushed |-> flushed,
     inStream |-> inStream, rdPos |-> rdPos, bufEnd |-> bufEnd,
     dispatched |-> dispatched, lastHdr |-> lastHdr, trace |-> trace, rpc |-> rpc,
     drained |-> drained]

Commit(q) ==
    /\ mState' = q.mState
    /\ mWriteQueue' = q.mWriteQueue
    /\ mWriting' = q.mWriting
    /\ mDelayedShutdown' = q.mDelayedShutdown
    /\ mShutdownScheduled' = q.mShutdownScheduled
    /\ mIncomingHeader' = q.mIncomingHeader
    /\ mIncomingBody' = q.mIncomingBody
    /\ mIdleTimer' = q.mIdleTimer
    /\ connecting' = q.connecting
    /\ writeOps' = q.writeOps
    /\ readOps' = q.readOps
    /\ posted' = q.posted
    /\ sockShutdowns' = q.sockShutdowns
    /\ sockCloses' = q.sockCloses
    /\ removePeerCalls' = q.removePeerCalls
    /\ sent' = q.sent
    /\ enqueued' = q.enqueued
    /\ issued' = q.issued
    /\ written' = q.written
    /\ flushed' = q.flushed
    /\ inStream' = q.inStream
    /\ rdPos' = q.rdPos
    /\ bufEnd' = q.bufEnd
    /\ dispatched' = q.dispatched
    /\ lastHdr' = q.lastHdr
    /\ trace' = q.trace
    /\ rpc' = q.rpc
    /\ drained' = q.drained

Log(p, e) == [p EXCEPT !.trace = @ \cup {e}]

DropModes == {"IGNORE_WRITE_QUEUE", "KEEP_WRITE_QUEUE"}

\* ---- Peer.h helpers (the base class is not part of the sources)
shouldAbort(p) == p.mState = "CLOSING"
isConnected(p) == p.mState \notin {"CONNECTING", "CLOSING"}
isAuthenticated(p) == p.mState = "GOT_AUTH"

\* shutdown() that closes the descriptor without the socket shutdown step
shutdown_closeOnly(p) ==
    IF p.mShutdownScheduled
    THEN Log(p, "double_shutdown")
    ELSE [p EXCEPT !.mIdleTimer = FALSE,
                   !.mShutdownScheduled = TRUE,
                   !.posted = Append(@, "close")]

\* shutdown() without the mShutdownScheduled guard
shutdown_noGuard(p) ==
    [p EXCEPT !.mIdleTimer = FALSE,
              !.mShutdownScheduled = TRUE,
              !.posted = Append(@, "shutdown")]

\* ---- TCPPeer::shutdown
shutdown(p) ==
    IF p.mShutdownScheduled
    THEN Log(p, "double_shutdown")
    ELSE [p EXCEPT !.mIdleTimer = FALSE,
                   !.mShutdownScheduled = TRUE,
                   !.posted = Append(@, "shutdown")]

\* drop() that gives up on a peer that never connected
drop_onlyConnected(p, dropMode) ==
    IF shouldAbort(p) \/ ~isConnected(p)
    THEN Log(p, "drop_noop")
    ELSE LET q == [p EXCEPT !.mState = "CLOSING",
                            !.removePeerCalls = @ + 1]
         IN  IF dropMode = "IGNORE_WRITE_QUEUE" \/ ~q.mWriting
             THEN shutdown(q)
             ELSE [q EXCEPT !.mDelayedShutdown = TRUE]

\* drop() without the shouldAbort() check
drop_noAbortCheck(p, dropMode) ==
    LET q == [p EXCEPT !.mState = "CLOSING",
                       !.removePeerCalls = @ + 1]
    IN  IF dropMode = "IGNORE_WRITE_QUEUE" \/ ~q.mWriting
        THEN shutdown(q)
        ELSE [q EXCEPT !.mDelayedShutdown = TRUE]

\* drop() that delays the shutdown whenever a write chain is armed, whatever the mode
drop_alwaysDelays(p, dropMode) ==
    IF shouldAbort(p)
    THEN Log(p, "drop_noop")
    ELSE LET q == [p EXCEPT !.mState = "CLOSING",
                            !.removePeerCalls = @ + 1]
         IN  IF ~q.mWriting
             THEN shutdown(q)
             ELSE [q EXCEPT !.mDelayedShutdown = TRUE]

\* ---- TCPPeer::drop
drop(p, dropMode) ==
    IF shouldAbort(p)
    THEN Log(p, "drop_noop")
    ELSE LET q == [p EXCEPT !.mState = "CLOSING",
                            !.removePeerCalls = @ + 1]
         IN  IF dropMode = "IGNORE_WRITE_QUEUE" \/ ~q.mWriting
             THEN shutdown(q)
             ELSE [q EXCEPT !.mDelayedShutdown = TRUE]

\* an asynchronous write that takes its record off the queue as it is issued
IssueWrite_popsAtIssue(p, tsm) ==
    LET q == IF p.mState = "CLOSING" THEN Log(p, "write_in_closing") ELSE p
    IN  [q EXCEPT !.writeOps = Append(@, [kind |-> "write", msg |-> tsm]),
                  !.issued = Append(@, tsm),
                  !.mWriteQueue = Tail(@)]

\* the asynchronous write of record tsm ("write_in_closing" notes a write
\* issued after the drop)
IssueWrite(p, tsm) ==
    LET q == IF p.mState = "CLOSING" THEN Log(p, "write_in_closing") ELSE p
    IN  [q EXCEPT !.writeOps = Append(@, [kind |-> "write", msg |-> tsm]),
                  !.issued = Append(@, tsm)]

\* messageSender() that takes the newest record instead of the front
messageSender_back(p) ==
    IF p.mWriteQueue = <<>>
    THEN [p EXCEPT !.writeOps = Append(@, [kind |-> "flush"])]
    ELSE IssueWrite(p, p.mWriteQueue[Len(p.mWriteQueue)])

\* ---- TCPPeer::messageSender: issues the flush or the write of the front record
messageSender(p) ==
    IF p.mWriteQueue = <<>>
    THEN [p EXCEPT !.writeOps = Append(@, [kind |-> "flush"])]
    ELSE IssueWrite(p, Head(p.mWriteQueue))

\* sendMessage() that starts a write chain on every call
sendMessage_unguarded(p, m) ==
    IF p.mState = "CLOSING"
    THEN Log(p, "send_after_drop")
    ELSE messageSender([p EXCEPT !.mWriteQueue = Append(@, m),
                                 !.enqueued = Append(@, m),
                                 !.mWriting = TRUE])

\* sendMessage() without the CLOSING check
sendMessage_noClosingCheck(p, m) ==
    LET q == [p EXCEPT !.mWriteQueue = Append(@, m),
                       !.enqueued = Append(@, m)]
    IN  IF ~q.mWriting
        THEN messageSender([q EXCEPT !.mWriting = TRUE])
        ELSE q

\* ---- TCPPeer::sendMessage
sendMessage(p, m) ==
    IF p.mState = "CLOSING"
    THEN Log(p, "send_after_drop")
    ELSE LET q == [p EXCEPT !.mWriteQueue = Append(@, m),
                            !.enqueued = Append(@, m)]
         IN  IF ~q.mWriting
             THEN messageSender([q EXCEPT !.mWriting = TRUE])
             ELSE q

\* writeHandler() that performs the delayed shutdown on any completion
writeHandler_anyCompletion(p, error) ==
    LET q == IF error /\ isConnected(p) THEN Log(p, "error_write") ELSE p
    IN  IF q.mDelayedShutdown
        THEN shutdown(q)
        ELSE IF error THEN drop(q, "IGNORE_WRITE_QUEUE") ELSE q

\* writeHandler() that always drops on an error, delayed shutdown or not
writeHandler_alwaysDrops(p, error) ==
    IF error
    THEN drop(IF isConnected(p) THEN Log(p, "error_write") ELSE p, "IGNORE_WRITE_QUEUE")
    ELSE p

\* ---- TCPPeer::writeHandler
writeHandler(p, error) ==
    IF error
    THEN LET q == IF isConnected(p) THEN Log(p, "error_write") ELSE p
         IN  IF q.mDelayedShutdown
             THEN shutdown(q)
             ELSE drop(q, "IGNORE_WRITE_QUEUE")
    ELSE p

\* std::queue::pop; on an empty queue it is undefined behaviour, recorded as such
Pop(p) ==
    IF p.mWriteQueue = <<>>
    THEN Log(p, "pop_empty")
    ELSE [p EXCEPT !.mWriteQueue = Tail(@)]

\* completion handler of the async_write issued by messageSender
writeCompletion(p, op, ec) ==
    LET q1 == writeHandler(p, ec)
        q2 == IF ec THEN Log(q1, "write_failed")
                    ELSE [q1 EXCEPT !.written = Append(@, op.msg)]
        q3 == Pop(q2)
    IN  IF ~ec THEN messageSender(q3) ELSE q3

\* flush completion that leaves mWriting set when the queue is empty
flushCompletion_keepsWriting(p, ec) ==
    LET q1 == writeHandler(p, ec)
    IN  IF ~ec
        THEN LET q2 == [q1 EXCEPT !.flushed = Len(q1.written)]
             IN  IF q2.mWriteQueue # <<>>
                 THEN messageSender(q2)
                 ELSE IF q2.mDelayedShutdown THEN shutdown(q2) ELSE q2
        ELSE Log(q1, "write_failed")

\* flush completion that clears mWriting without looking at the queue
flushCompletion_noReenter(p, ec) ==
    LET q1 == writeHandler(p, ec)
    IN  IF ~ec
        THEN LET q3 == [q1 EXCEPT !.flushed = Len(q1.written), !.mWriting = FALSE]
             IN  IF q3.mDelayedShutdown THEN shutdown(q3) ELSE q3
        ELSE Log(q1, "write_failed")

\* flush completion that goes on to the queue test whatever the error code
flushCompletion_ignoresError(p, ec) ==
    LET q1 == writeHandler(p, ec)
        q2 == IF ec THEN Log(q1, "write_failed")
                    ELSE [q1 EXCEPT !.flushed = Len(q1.written)]
    IN  IF q2.mWriteQueue # <<>>
        THEN messageSender(q2)
        ELSE LET q3 == [q2 EXCEPT !.mWriting = FALSE]
             IN  IF q3.mDelayedShutdown THEN shutdown(q3) ELSE q3

\* completion handler of the async_flush issued by messageSender
flushCompletion(p, ec) ==
    LET q1 == writeHandler(p, ec)
    IN  IF ~ec
        THEN LET q2 == [q1 EXCEPT !.flushed = Len(q1.written)]
             IN  IF q2.mWriteQueue # <<>>
                 THEN messageSender(q2)
                 ELSE LET q3 == [q2 EXCEPT !.mWriting = FALSE]
                      IN  IF q3.mDelayedShutdown THEN shutdown(q3) ELSE q3
        ELSE Log(q1, "write_failed")

\* ---- the inbound byte stream
\* A frame the remote sends: the 4 header bytes, the number of body bytes that
\* follow them (every body byte is 0), and whether the body deserialises.
Frame(h, n, good) == [hdr |-> h, body |-> n, ok |-> good]

FrameKinds ==
    { Frame(<<128, 0, 0, 1>>, 1, TRUE),          \* length 1
      Frame(<<0, 0, 0, 2>>, 2, TRUE),            \* length 2, continuation bit clear
      Frame(<<128, 0, 0, 1>>, 1, FALSE),         \* length 1, corrupt XDR
      Frame(<<128, 0, 0, 0>>, 0, TRUE),          \* length 0
      Frame(<<128, 0, 16, 0>>, 4096, TRUE),      \* MAX_UNAUTH_MESSAGE_SIZE
      Frame(<<128, 0, 16, 1>>, 4097, TRUE),      \* MAX_UNAUTH_MESSAGE_SIZE + 1
      Frame(<<129, 0, 0, 0>>, 16777216, TRUE),   \* MAX_MESSAGE_SIZE
      Frame(<<129, 0, 0, 1>>, 0, TRUE) }         \* MAX_MESSAGE_SIZE + 1, header only

RECURSIVE StreamLen(_)
StreamLen(s) == IF s = <<>> THEN 0 ELSE HDRSZ + Head(s).body + StreamLen(Tail(s))

FrameStart(s, i) == StreamLen(SubSeq(s, 1, i - 1))

ByteAt(s, pos) ==
    LET i == CHOOSE j \in 1..Len(s) :
                 FrameStart(s, j) <= pos /\ pos < FrameStart(s, j + 1)
        off == pos - FrameStart(s, i)
    IN  IF off < HDRSZ THEN s[i].hdr[off + 1] ELSE 0

HeaderAt(s, pos) == [k \in 1..HDRSZ |-> ByteAt(s, pos + k - 1)]

\* the frame whose header starts at pos and whose body has n bytes; 0 when the
\* bytes read are not one frame of the stream
FrameAt(s, pos, n) ==
    LET m == {j \in 1..Len(s) : FrameStart(s, j) = pos /\ s[j].body = n}
    IN  IF m = {} THEN 0 ELSE CHOOSE j \in m : TRUE

\* where a fill of the buffered stream may stop: inside a header, after a
\* header, inside a body, at the end of a frame
CutPoints(s) ==
    UNION { LET b == FrameStart(s, j)
            IN  {b + 2, b + HDRSZ, FrameStart(s, j + 1)}
                  \cup (IF s[j].body >= 2 THEN {b + HDRSZ + 1} ELSE {})
            : j \in 1..Len(s) }

in_avail(p) == p.bufEnd - p.rdPos

\* vector::resize of the header buffer (new bytes are zero)
Resize(v, n) == [k \in 1..n |-> IF k <= Len(v) THEN v[k] ELSE 0]

\* ---- TCPPeer::getIncomingMsgLength: the decoded length
DecodeLength(h) == (((h[1] % 128) * 256 + h[2]) * 256 + h[3]) * 256 + h[4]

\* the size check without the limit for unauthenticated peers
LengthUnacceptable_noUnauth(p, length) ==
    \/ length <= 0
    \/ length > MAX_MESSAGE_SIZE

LengthUnacceptable(p, length) ==
    \/ length <= 0
    \/ (~isAuthenticated(p) /\ length > MAX_UNAUTH_MESSAGE_SIZE)
    \/ length > MAX_MESSAGE_SIZE

\* returns the state after the call and the returned length
getIncomingMsgLength(p) ==
    LET length == DecodeLength(p.mIncomingHeader)
        bad == LengthUnacceptable(p, length)
        q == [p EXCEPT !.lastHdr = [pos |-> p.rdPos - HDRSZ, len |-> length,
                                    auth |-> isAuthenticated(p), bad |-> bad]]
    IN  IF bad
        THEN [p |-> drop(Log(q, "error_read"), "IGNORE_WRITE_QUEUE"), length |-> 0]
        ELSE [p |-> q, length |-> length]

\* ---- Peer::recvMessage(AuthenticatedMessage): the logical handler, outside
\* the transport.  What it does with the envelope is one of UpcallEffects.
UpcallEffects == {"none", "auth", "reply", "drop_keep", "drop_ignore"}

Msg(p, t) == [id |-> p.sent + 1, type |-> t]

PeerRecvMessage(p, entry, eff) ==
    LET q == [p EXCEPT !.dispatched = Append(@, entry)]
    IN  CASE eff = "auth" ->
               IF q.mState = "CONNECTED" THEN [q EXCEPT !.mState = "GOT_AUTH"] ELSE q
          [] eff = "reply" ->
               sendMessage([q EXCEPT !.sent = @ + 1], Msg(q, "MSG"))
          [] eff = "drop_keep" -> drop(q, "KEEP_WRITE_QUEUE")
          [] eff = "drop_ignore" -> drop(q, "IGNORE_WRITE_QUEUE")
          [] OTHER -> q

\* ---- Peer::sendErrorAndDrop
sendErrorAndDrop(p, dropMode) ==
    drop(sendMessage([p EXCEPT !.sent = @ + 1], Msg(p, "ERR_DATA")), dropMode)

\* ---- TCPPeer::recvMessage
recvMessage(p, eff) ==
    LET f == FrameAt(p.inStream, p.mIncomingBody.hdr, p.mIncomingBody.size)
        entry == [frame |-> f, len |-> p.mIncomingBody.size, auth |-> p.lastHdr.auth,
                  closing |-> p.mState = "CLOSING"]
    IN  IF f # 0 /\ p.inStream[f].ok
        THEN PeerRecvMessage(p, entry, eff)
        ELSE sendErrorAndDrop(Log(p, "corrupt_xdr"), "IGNORE_WRITE_QUEUE")

\* ---- TCPPeer::readHeaderHandler
readHeaderHandler(p, error) ==
    IF ~error
    THEN LET r == getIncomingMsgLength(p)
         IN  IF r.length # 0
             THEN [r.p EXCEPT !.mIncomingBody = [size |-> r.length, hdr |-> r.p.lastHdr.pos],
                              !.readOps = Append(@, [kind |-> "body", need |-> r.length])]
             ELSE r.p
    ELSE drop(IF isConnected(p) THEN Log(p, "error_read") ELSE p, "IGNORE_WRITE_QUEUE")

\* startRead() without the shouldAbort() check
startRead_noAbortCheck(p) ==
    LET q == IF Len(p.mIncomingHeader) # 0 THEN Log(p, "assert_header") ELSE p
    IN  [q EXCEPT !.mIncomingHeader = Resize(@, HDRSZ),
                  !.rpc = "drain",
                  !.drained = 0]

\* ---- TCPPeer::startRead up to the drain loop
startRead(p) ==
    IF shouldAbort(p)
    THEN p
    ELSE LET q == IF Len(p.mIncomingHeader) # 0 THEN Log(p, "assert_header") ELSE p
         IN  [q EXCEPT !.mIncomingHeader = Resize(@, HDRSZ),
                       !.rpc = "drain",
                       !.drained = 0]

\* a drain loop that goes on after handing the header to readHeaderHandler
drainIteration_noReturn(p, eff) ==
    LET q == [p EXCEPT !.mIncomingHeader = HeaderAt(p.inStream, p.rdPos),
                       !.rdPos = @ + HDRSZ,
                       !.drained = @ + 1]
        r == getIncomingMsgLength(q)
    IN  IF r.length # 0
        THEN IF in_avail(r.p) >= r.length
             THEN recvMessage([r.p EXCEPT !.mIncomingBody =
                                              [size |-> r.length, hdr |-> r.p.lastHdr.pos],
                                          !.rdPos = @ + r.length], eff)
             ELSE readHeaderHandler(r.p, FALSE)
        ELSE r.p

\* one iteration of the drain loop: header and, when buffered, body
drainIteration(p, eff) ==
    LET q == [p EXCEPT !.mIncomingHeader = HeaderAt(p.inStream, p.rdPos),
                       !.rdPos = @ + HDRSZ,
                       !.drained = @ + 1]
        r == getIncomingMsgLength(q)
    IN  IF r.length # 0
        THEN IF in_avail(r.p) >= r.length
             THEN recvMessage([r.p EXCEPT !.mIncomingBody =
                                              [size |-> r.length, hdr |-> r.p.lastHdr.pos],
                                          !.rdPos = @ + r.length], eff)
             ELSE [readHeaderHandler(r.p, FALSE) EXCEPT !.rpc = "idle", !.drained = 0]
        ELSE r.p

\* the end of startRead: the asynchronous header read
drainExit(p) ==
    [p EXCEPT !.readOps = Append(@, [kind |-> "hdr", need |-> HDRSZ]),
              !.rpc = "idle",
              !.drained = 0]

\* readBodyHandler() that restarts the read without dispatching the body
readBodyHandler_noDispatch(p, error, eff) ==
    IF ~error
    THEN startRead([p EXCEPT !.mIncomingHeader = <<>>])
    ELSE drop(IF isConnected(p) THEN Log(p, "error_read") ELSE p, "IGNORE_WRITE_QUEUE")

\* readBodyHandler() that does not clear the header buffer
readBodyHandler_noClear(p, error, eff) ==
    IF ~error
    THEN startRead(recvMessage(p, eff))
    ELSE drop(IF isConnected(p) THEN Log(p, "error_read") ELSE p, "IGNORE_WRITE_QUEUE")

\* ---- TCPPeer::readBodyHandler
readBodyHandler(p, error, eff) ==
    IF ~error
    THEN LET q == recvMessage(p, eff)
         IN  startRead([q EXCEPT !.mIncomingHeader = <<>>])
    ELSE drop(IF isConnected(p) THEN Log(p, "error_read") ELSE p, "IGNORE_WRITE_QUEUE")

\* ---- TCPPeer::connected
connected(p) == startRead(p)

\* ---- Peer::connectHandler
connectHandler(p, error) ==
    IF error
    THEN drop(p, "IGNORE_WRITE_QUEUE")
    ELSE connected(IF p.mState = "CONNECTING" THEN [p EXCEPT !.mState = "CONNECTED"] ELSE p)

\* ---- the two closures posted by shutdown()
runPosted(p) ==
    LET q == [p EXCEPT !.posted = Tail(@)]
    IN  IF Head(p.posted) = "shutdown"
        THEN [q EXCEPT !.sockShutdowns = @ + 1, !.posted = Append(@, "close")]
        ELSE [q EXCEPT !.sockCloses = @ + 1]

\* ---- the reactor
RemoveAt(s, i) == SubSeq(s, 1, i - 1) \o SubSeq(s, i + 1, Len(s))

\* an asynchronous read of `need` bytes can complete without error when the
\* buffered stream holds them, or the socket is open and the remote sent them
CanRead(p, need) ==
    \/ in_avail(p) >= need
    \/ /\ p.sockShutdowns = 0
       /\ p.sockCloses = 0
       /\ StreamLen(p.inStream) >= p.rdPos + need

\* what the buffered stream holds after the read: untouched when it held the
\* bytes, else what the last fill (at most BUFSZ bytes) left over
BufEndsAfter(p, need) ==
    IF in_avail(p) >= need
    THEN {p.bufEnd}
    ELSE {e \in CutPoints(p.inStream) \cup {p.rdPos + need} :
              e >= p.rdPos + need /\ e - (p.rdPos + need) < BUFSZ}

\* ---- construction: TCPPeer::initiate and TCPPeer::accept
Fresh(state) ==
    [mState |-> state, mWriteQueue |-> <<>>, mWriting |-> FALSE,
     mDelayedShutdown |-> FALSE, mShutdownScheduled |-> FALSE,
     mIncomingHeader |-> <<>>, mIncomingBody |-> [size |-> 0, hdr |-> -1],
     mIdleTimer |-> TRUE, connecting |-> FALSE, writeOps |-> <<>>,
     readOps |-> <<>>, posted |-> <<>>, sockShutdowns |-> 0,
     sockCloses |-> 0, removePeerCalls |-> 0, sent |-> 0,
     enqueued |-> <<>>, issued |-> <<>>, written |-> <<>>, flushed |-> 0,
     inStream |-> <<>>, rdPos |-> 0, bufEnd |-> 0,
     dispatched |-> <<>>,
     lastHdr |-> [pos |-> -1, len |-> 0, auth |-> FALSE, bad |-> FALSE],
     trace |-> {}, rpc |-> "idle", drained |-> 0]

initiate == [Fresh("CONNECTING") EXCEPT !.connecting = TRUE]

accept == startRead(Fresh("CONNECTED"))

Install(q) ==
    /\ mState = q.mState
    /\ mWriteQueue = q.mWriteQueue
    /\ mWriting = q.mWriting
    /\ mDelayedShutdown = q.mDelayedShutdown
    /\ mShutdownScheduled = q.mShutdownScheduled
    /\ mIncomingHeader = q.mIncomingHeader
    /\ mIncomingBody = q.mIncomingBody
    /\ mIdleTimer = q.mIdleTimer
    /\ connecting = q.connecting
    /\ writeOps = q.writeOps
    /\ readOps = q.readOps
    /\ posted = q.posted
    /\ sockShutdowns = q.sockShutdowns
    /\ sockCloses = q.sockCloses
    /\ removePeerCalls = q.removePeerCalls
    /\ sent = q.sent
    /\ enqueued = q.enqueued
    /\ issued = q.issued
    /\ written = q.written
    /\ flushed = q.flushed
    /\ inStream = q.inStream
    /\ rdPos = q.rdPos
    /\ bufEnd = q.bufEnd
    /\ dispatched = q.dispatched
    /\ lastHdr = q.lastHdr
    /\ trace = q.trace
    /\ rpc = q.rpc
    /\ drained = q.drained

Init == \E q \in {initiate, accept} : Install(q)

\* ---- actions: one per entry point or completion handler
ConnectCompletion ==
    /\ rpc = "idle"
    /\ connecting
    /\ \E ec \in BOOLEAN :
           Commit(connectHandler([Self EXCEPT !.connecting = FALSE], ec))

\* the overlay calls sendMessage on a peer whose connection is established
SendMessage ==
    /\ rpc = "idle"
    /\ sent < MaxMsgs
    /\ mState # "CONNECTING"
    /\ Commit(sendMessage([Self EXCEPT !.sent = @ + 1], Msg(Self, "MSG")))

\* the overlay, or the idle timer, calls drop
Drop ==
    /\ rpc = "idle"
    /\ \E mode \in DropModes : Commit(drop(Self, mode))

WriteCompletion ==
    /\ rpc = "idle"
    /\ \E i \in 1..Len(writeOps), ec \in BOOLEAN :
           /\ writeOps[i].kind = "write"
           /\ Commit(writeCompletion([Self EXCEPT !.writeOps = RemoveAt(@, i)],
                                     writeOps[i], ec))

FlushCompletion ==
    /\ rpc = "idle"
    /\ \E i \in 1..Len(writeOps), ec \in BOOLEAN :
           /\ writeOps[i].kind = "flush"
           /\ Commit(flushCompletion([Self EXCEPT !.writeOps = RemoveAt(@, i)], ec))

RunPosted ==
    /\ rpc = "idle"
    /\ posted # <<>>
    /\ Commit(runPosted(Self))

\* the remote puts one more frame on the stream
RemoteSend(kinds, max) ==
    /\ rpc = "idle"
    /\ Len(inStream) < max
    /\ mState # "CONNECTING"
    /\ sockShutdowns = 0
    /\ \E f \in kinds : inStream' = Append(inStream, f)
    /\ UNCHANGED <<mState, mWriteQueue, mWriting, mDelayedShutdown, mShutdownScheduled,
                   mIncomingHeader, mIncomingBody, mIdleTimer, connecting, writeOps,
                   readOps, posted, sockShutdowns, sockCloses, removePeerCalls, sent,
                   enqueued, issued, written, flushed, rdPos, bufEnd, dispatched,
                   lastHdr, trace, rpc, drained>>

ReadHeaderCompletion ==
    /\ rpc = "idle"
    /\ \E i \in 1..Len(readOps) :
           /\ readOps[i].kind = "hdr"
           /\ LET p == [Self EXCEPT !.readOps = RemoveAt(@, i)]
              IN  \/ /\ CanRead(p, HDRSZ)
                     /\ \E e \in BufEndsAfter(p, HDRSZ) :
                            Commit(readHeaderHandler(
                                [p EXCEPT !.mIncomingHeader = HeaderAt(p.inStream, p.rdPos),
                                          !.rdPos = @ + HDRSZ,
                                          !.bufEnd = e], FALSE))
                  \/ Commit(readHeaderHandler(p, TRUE))

ReadBodyCompletion ==
    /\ rpc = "idle"
    /\ \E i \in 1..Len(readOps) :
           /\ readOps[i].kind = "body"
           /\ LET p == [Self EXCEPT !.readOps = RemoveAt(@, i)]
                  need == readOps[i].need
              IN  \/ /\ CanRead(p, need)
                     /\ \E e \in BufEndsAfter(p, need), eff \in UpcallEffects :
                            /\ eff = "reply" => sent < MaxMsgs
                            /\ Commit(readBodyHandler(
                                   [p EXCEPT !.rdPos = @ + need, !.bufEnd = e], FALSE, eff))
                  \/ Commit(readBodyHandler(p, TRUE, "none"))

\* the drain loop of startRead: one more iteration
DrainIteration ==
    /\ rpc = "drain"
    /\ in_avail(Self) >= HDRSZ
    /\ drained < MaxDrain
    /\ \E eff \in UpcallEffects :
           /\ eff = "reply" => sent < MaxMsgs
           /\ Commit(drainIteration(Self, eff))

\* the drain loop ends (no header buffered, or the yield timer expired)
DrainExit ==
    /\ rpc = "drain"
    /\ Commit(drainExit(Self))

\* ---- the whole system: any overlay, any remote
Next ==
    \/ ConnectCompletion
    \/ SendMessage
    \/ Drop
    \/ WriteCompletion
    \/ FlushCompletion
    \/ RunPosted
    \/ RemoteSend(FrameKinds, MaxFrames)
    \/ ReadHeaderCompletion
    \/ ReadBodyCompletion
    \/ DrainIteration
    \/ DrainExit

Spec == Init /\ [][Next]_vars

\* ---- the outbound side: any overlay; the remote sends only well-formed
\* one-byte frames (enough for the handshake to reach GOT_AUTH)
HelloFrames == {Frame(<<128, 0, 0, 1>>, 1, TRUE)}

NextWrite ==
    \/ ConnectCompletion
    \/ SendMessage
    \/ Drop
    \/ WriteCompletion
    \/ FlushCompletion
    \/ RunPosted
    \/ RemoteSend(HelloFrames, MaxHello)
    \/ ReadHeaderCompletion
    \/ ReadBodyCompletion
    \/ DrainIteration
    \/ DrainExit

SpecWrite == Init /\ [][NextWrite]_vars

\* ---- the inbound side: any remote; the overlay sends and drops only from
\* its message handler
NextRead ==
    \/ ConnectCompletion
    \/ WriteCompletion
    \/ FlushCompletion
    \/ RunPosted
    \/ RemoteSend(FrameKinds, MaxFrames)
    \/ ReadHeaderCompletion
    \/ ReadBodyCompletion
    \/ DrainIteration
    \/ DrainExit

SpecRead == Init /\ [][NextRead]_vars

\* ---- the shutdown coordinator entered again: any overlay, a remote that
\* sends nothing, and shutdown() may be invoked again, any number of times,
\* once it has been invoked
CallShutdown ==
    /\ rpc = "idle"
    /\ mShutdownScheduled
    /\ Commit(shutdown(Self))

NextShutdown ==
    \/ ConnectCompletion
    \/ SendMessage
    \/ Drop
    \/ WriteCompletion
    \/ FlushCompletion
    \/ RunPosted
    \/ ReadHeaderCompletion
    \/ DrainExit
    \/ CallShutdown

SpecShutdown == Init /\ [][NextShutdown]_vars

\* ---- the write pump left alone: no I/O error, nobody drops the peer, and
\* every completion handler the reactor owes is eventually run
NoDropEffects == {"none", "auth", "reply"}

ConnectCompletionOk ==
    /\ rpc = "idle"
    /\ connecting
    /\ Commit(connectHandler([Self EXCEPT !.connecting = FALSE], FALSE))

WriteCompletionOk ==
    /\ rpc = "idle"
    /\ \E i \in 1..Len(writeOps) :
           /\ writeOps[i].kind = "write"
           /\ Commit(writeCompletion([Self EXCEPT !.writeOps = RemoveAt(@, i)],
                                     writeOps[i], FALSE))

FlushCompletionOk ==
    /\ rpc = "idle"
    /\ \E i \in 1..Len(writeOps) :
           /\ writeOps[i].kind = "flush"
           /\ Commit(flushCompletion([Self EXCEPT !.writeOps = RemoveAt(@, i)], FALSE))

ReadHeaderCompletionOk ==
    /\ rpc = "idle"
    /\ \E i \in 1..Len(readOps) :
           /\ readOps[i].kind = "hdr"
           /\ LET p == [Self EXCEPT !.readOps = RemoveAt(@, i)]
              IN  /\ CanRead(p, HDRSZ)
                  /\ \E e \in BufEndsAfter(p, HDRSZ) :
                         Commit(readHeaderHandler(
                             [p EXCEPT !.mIncomingHeader = HeaderAt(p.inStream, p.rdPos),
                                       !.rdPos = @ + HDRSZ,
                                       !.bufEnd = e], FALSE))

ReadBodyCompletionOk ==
    /\ rpc = "idle"
    /\ \E i \in 1..Len(readOps) :
           /\ readOps[i].kind = "body"
           /\ LET p == [Self EXCEPT !.readOps = RemoveAt(@, i)]
                  need == readOps[i].need
              IN  /\ CanRead(p, need)
                  /\ \E e \in BufEndsAfter(p, need), eff \in NoDropEffects :
                         /\ eff = "reply" => sent < MaxMsgs
                         /\ Commit(readBodyHandler(
                                [p EXCEPT !.rdPos = @ + need, !.bufEnd = e], FALSE, eff))

DrainIterationOk ==
    /\ rpc = "drain"
    /\ in_avail(Self) >= HDRSZ
    /\ drained < MaxDrain
    /\ \E eff \in NoDropEffects :
           /\ eff = "reply" => sent < MaxMsgs
           /\ Commit(drainIteration(Self, eff))

NextPump ==
    \/ ConnectCompletionOk
    \/ SendMessage
    \/ WriteCompletionOk
    \/ FlushCompletionOk
    \/ RemoteSend(HelloFrames, MaxHello)
    \/ ReadHeaderCompletionOk
    \/ ReadBodyCompletionOk
    \/ DrainIterationOk
    \/ DrainExit

SpecPump ==
    /\ Init
    /\ [][NextPump]_vars
    /\ WF_vars(WriteCompletionOk)
    /\ WF_vars(FlushCompletionOk)
    /\ WF_vars(DrainExit)

\* ---- closing down: any overlay, a remote that sends nothing, and a reactor
\* that eventually runs every posted closure and every completion handler
NextClose ==
    \/ ConnectCompletion
    \/ SendMessage
    \/ Drop
    \/ WriteCompletion
    \/ FlushCompletion
    \/ RunPosted
    \/ ReadHeaderCompletion
    \/ DrainExit

SpecClose ==
    /\ Init
    /\ [][NextClose]_vars
    /\ WF_vars(RunPosted)
    /\ WF_vars(WriteCompletion)
    /\ WF_vars(FlushCompletion)
    /\ WF_vars(DrainExit)

\* ---- properties
IsPrefix(a, b) == Len(a) <= Len(b) /\ SubSeq(b, 1, Len(a)) = a

\* the state without the log
Quiet(p) == [p EXCEPT !.trace = {}]

\* C1: the asynchronous writes are issued in enqueue order: the messages
\* handed to async_write so far are the first messages accepted by
\* sendMessage, each once, none skipped.
C1_WritesInEnqueueOrder == IsPrefix(issued, enqueued)

C1_Witness ==
    /\ Len(issued) = 3
    /\ flushed >= 1
    /\ flushed < Len(written)

\* C2: at most one async_write or async_flush is outstanding.
C2_SingleWriteInFlight == Len(writeOps) <= 1

C2_Witness ==
    /\ Len(writeOps) = 1
    /\ mState = "CLOSING"
    /\ "write_in_closing" \in trace
    /\ Len(written) >= 1
    /\ Len(mWriteQueue) >= 2

\* C3: every body that is read and dispatched has a decoded length L with
\* 0 < L <= MAX_MESSAGE_SIZE, and L <= MAX_UNAUTH_MESSAGE_SIZE when the peer
\* was not authenticated as the header was decoded; after a header outside
\* these limits the peer is CLOSING, error_read is marked, and no body is
\* sized or read for that header.
C3_Violates(len, auth) ==
    \/ len <= 0
    \/ len > 16777216
    \/ (~auth /\ len > 4096)

C3_FrameSizeLimits ==
    /\ \A i \in 1..Len(dispatched) : ~C3_Violates(dispatched[i].len, dispatched[i].auth)
    /\ \A i \in 1..Len(readOps) :
           readOps[i].kind = "body" =>
               /\ readOps[i].need = lastHdr.len
               /\ ~C3_Violates(lastHdr.len, lastHdr.auth)
    /\ (lastHdr.pos >= 0 /\ C3_Violates(lastHdr.len, lastHdr.auth)) =>
           /\ mState = "CLOSING"
           /\ "error_read" \in trace
           /\ mIncomingBody.hdr # lastHdr.pos
           /\ \A i \in 1..Len(readOps) : readOps[i].kind # "body"

C3_Witness ==
    /\ Len(dispatched) = 1
    /\ dispatched[1].len = MAX_UNAUTH_MESSAGE_SIZE
    /\ ~dispatched[1].auth
    /\ lastHdr.len = MAX_UNAUTH_MESSAGE_SIZE + 1
    /\ ~lastHdr.auth
    /\ mState = "CLOSING"

\* C4: after drop returns, in whatever state and with whatever mode it was
\* called, mState is CLOSING and removePeer has been called for this peer.
C4_DropPostcondition ==
    /\ \A mode \in DropModes :
           LET q == drop(Self, mode)
           IN  q.mState = "CLOSING" /\ q.removePeerCalls >= 1
    /\ (removePeerCalls > 0 \/ "drop_noop" \in trace) =>
           (mState = "CLOSING" /\ removePeerCalls >= 1)

C4_Witness ==
    /\ mState = "CLOSING"
    /\ removePeerCalls = 1
    /\ dispatched # <<>>
    /\ \E i \in 1..Len(dispatched) : dispatched[i].auth

\* C5: drop on a peer that is already CLOSING changes nothing: removePeer is
\* not called again, shutdown() is not called, mDelayedShutdown keeps its value.
C5_DropIdempotent ==
    /\ mState = "CLOSING" =>
           \A mode \in DropModes :
               LET q == drop(Self, mode)
               IN  /\ Quiet(q) = Quiet(Self)
                   /\ q.trace \ {"drop_noop"} = trace \ {"drop_noop"}
    /\ removePeerCalls <= 1

C5_Witness ==
    /\ "drop_noop" \in trace
    /\ mDelayedShutdown
    /\ ~mShutdownScheduled
    /\ Len(writeOps) = 1

\* C6: sendMessage on a CLOSING peer leaves the write queue, mWriting,
\* mDelayedShutdown and mShutdownScheduled as they are, accepts nothing and
\* issues no asynchronous write or flush.
C6_SendWhileClosingNoEffect ==
    mState = "CLOSING" =>
        LET q == sendMessage([Self EXCEPT !.sent = @ + 1], Msg(Self, "MSG"))
        IN  /\ q.mWriteQueue = mWriteQueue
            /\ q.mWriting = mWriting
            /\ q.mDelayedShutdown = mDelayedShutdown
            /\ q.mShutdownScheduled = mShutdownScheduled
            /\ q.enqueued = enqueued
            /\ q.writeOps = writeOps
            /\ q.issued = issued
            /\ q.posted = posted

C6_Witness ==
    /\ "send_after_drop" \in trace
    /\ mWriteQueue # <<>>
    /\ mDelayedShutdown
    /\ Len(writeOps) = 1

\* C7: drop with KEEP_WRITE_QUEUE on a peer whose write chain is armed sets
\* mDelayedShutdown and does not schedule the shutdown; when no write or flush
\* fails, the shutdown is scheduled (and so the socket is shut down) only once
\* every accepted message is written and flushed and the queue is empty.
C7_DelayedShutdownAfterDrain ==
    /\ (mState # "CLOSING" /\ mWriting) =>
           LET q == drop(Self, "KEEP_WRITE_QUEUE")
           IN  q.mDelayedShutdown /\ ~q.mShutdownScheduled
    /\ (mDelayedShutdown /\ "write_failed" \notin trace /\ mShutdownScheduled) =>
           /\ mWriteQueue = <<>>
           /\ writeOps = <<>>
           /\ written = enqueued
           /\ flushed = Len(enqueued)

C7_Witness ==
    /\ mDelayedShutdown
    /\ "write_failed" \notin trace
    /\ "write_in_closing" \in trace
    /\ sockCloses = 1
    /\ Len(enqueued) >= 2
    /\ flushed = Len(enqueued)

\* C8: socket.close() runs only after socket.shutdown(both) has run, and
\* each of the two runs at most once.
C8_CloseAfterShutdownOnce ==
    /\ sockShutdowns <= 1
    /\ sockCloses <= 1
    /\ sockCloses >= 1 => sockShutdowns >= 1
    /\ \A i \in 1..Len(posted) : posted[i] = "close" => sockShutdowns >= 1

C8_Witness ==
    /\ sockCloses = 1
    /\ sockShutdowns = 1
    /\ "drop_noop" \in trace
    /\ writeOps # <<>>

\* C9: shutdown() invoked again has no effect: it posts nothing, changes no
\* state, mShutdownScheduled stays true, and however often it is invoked the
\* socket is shut down and closed once.
C9_ShutdownIdempotent ==
    /\ LET once == shutdown(Self)
           twice == shutdown(once)
       IN  /\ Quiet(twice) = Quiet(once)
           /\ twice.mShutdownScheduled
    /\ mShutdownScheduled => Quiet(shutdown(Self)) = Quiet(Self)
    /\ Len(posted) + sockCloses <= 1
    /\ sockShutdowns <= 1
    /\ (posted # <<>> \/ sockShutdowns > 0) => mShutdownScheduled

C9_Witness ==
    /\ "double_shutdown" \in trace
    /\ sockCloses = 1
    /\ sockShutdowns = 1

\* C10: while no frame has been rejected, the bodies handed to recvMessage are
\* the frames of the stream in arrival order, each once, and every frame the
\* peer has consumed has been handed over.
C10_NoRejection == "error_read" \notin trace /\ "corrupt_xdr" \notin trace

C10_FramesDispatchedInOrder ==
    C10_NoRejection =>
        /\ \A i \in 1..Len(dispatched) : dispatched[i].frame = i
        /\ Len(dispatched) =
               Cardinality({j \in 1..Len(inStream) : FrameStart(inStream, j + 1) <= rdPos})

C10_Witness ==
    /\ C10_NoRejection
    /\ Len(dispatched) = 2
    /\ rpc = "drain"
    /\ drained = 1
    /\ mState # "CLOSING"

\* the outstanding asynchronous writes that were issued before the drop: at
\* most one write is outstanding, the last one issued, and it was issued by a
\* CLOSING peer exactly when write_in_closing has been noted
PendingWritesFromBeforeDrop ==
    {i \in 1..Len(writeOps) :
         writeOps[i].kind = "write" /\ "write_in_closing" \notin trace}

\* C11: for a drop in either mode, the socket shutdown step does not run
\* while an asynchronous write issued before the drop still waits for its
\* completion handler.
C11_ShutdownAfterPendingWrites ==
    sockShutdowns > 0 => PendingWritesFromBeforeDrop = {}

\* C12: after a body that fails deserialization, the ERR_DATA message is
\* written to the socket before the socket is shut down, whatever else is
\* queued or being written.
C12_ErrDataBeforeShutdown ==
    ("corrupt_xdr" \in trace /\ sockShutdowns > 0) =>
        \E i \in 1..Len(written) : written[i].type = "ERR_DATA"

\* a step issues an asynchronous write or flush / an asynchronous read
IssuesWrite == writeOps' # writeOps /\ writeOps' # <<>>
IssuesRead == readOps' # readOps /\ readOps' # <<>>

C14_WritingIffWriteOutstanding == mWriting <=> writeOps # <<>>

\* C14 amended: mWriting is true while a write or flush is outstanding; it
\* is true with nothing outstanding exactly when a write or flush has
\* completed with an error, and then the peer is CLOSING with its shutdown
\* scheduled.
C14_WritingWhileChainArmed ==
    /\ writeOps # <<>> => mWriting
    /\ (mWriting /\ writeOps = <<>>) <=> "write_failed" \in trace
    /\ "write_failed" \in trace => (mState = "CLOSING" /\ mShutdownScheduled)

C14_Witness ==
    /\ "write_failed" \in trace
    /\ mWriting
    /\ writeOps = <<>>
    /\ mWriteQueue # <<>>
    /\ Len(written) >= 1

\* C15: once a header read by the drain loop has decoded to an invalid
\* length, startRead is over: no further byte is read from the stream, no
\* further message is dispatched and no asynchronous read is registered.
C15_InvalidLengthEndsDrain ==
    [][(rpc = "drain" /\ drained > 0 /\ lastHdr.bad) =>
           /\ rdPos' = rdPos
           /\ dispatched' = dispatched
           /\ readOps' = readOps]_vars

\* what drop does on a peer that is not yet CLOSING, per mode
C16_DropCallsShutdown ==
    mState # "CLOSING" =>
        \A mode \in DropModes :
            LET q == drop(Self, mode)
            IN  IF mode = "IGNORE_WRITE_QUEUE" \/ ~mWriting
                THEN /\ q.mShutdownScheduled
                     /\ q.posted = Append(posted, "shutdown")
                     /\ ~q.mDelayedShutdown
                ELSE /\ ~q.mShutdownScheduled
                     /\ q.posted = posted
                     /\ q.mDelayedShutdown

\* what the completion of the outstanding write or flush does once
\* mDelayedShutdown is set
C16_PumpCallsShutdown ==
    (mDelayedShutdown /\ writeOps # <<>>) =>
        /\ ~mShutdownScheduled
        /\ \A i \in 1..Len(writeOps), ec \in BOOLEAN :
               LET p == [Self EXCEPT !.writeOps = RemoveAt(@, i)]
                   q == IF writeOps[i].kind = "write"
                        THEN writeCompletion(p, writeOps[i], ec)
                        ELSE flushCompletion(p, ec)
               IN  q.mShutdownScheduled <=>
                       \/ ec
                       \/ writeOps[i].kind = "flush" /\ mWriteQueue = <<>>

\* C16: a drop that takes effect calls shutdown() at once when the mode is
\* IGNORE_WRITE_QUEUE or mWriting is false, and otherwise only sets
\* mDelayedShutdown; with mDelayedShutdown set, shutdown() is called by the
\* completion of the outstanding write or flush exactly when it reports an
\* error or it is a flush that finds the queue empty; mDelayedShutdown is
\* set by nothing but such a drop.
C16_DelayedShutdown ==
    /\ [](C16_DropCallsShutdown /\ C16_PumpCallsShutdown)
    /\ []((mDelayedShutdown /\ mShutdownScheduled) =>
              /\ writeOps = <<>>
              /\ "write_failed" \in trace \/ (mWriteQueue = <<>> /\ ~mWriting))
    /\ [][(mDelayedShutdown' /\ ~mDelayedShutdown) =>
              /\ mState # "CLOSING"
              /\ mState' = "CLOSING"
              /\ mWriting
              /\ ~mShutdownScheduled']_vars

C16_Witness ==
    /\ mDelayedShutdown
    /\ mShutdownScheduled
    /\ "write_failed" \in trace
    /\ mWriteQueue # <<>>
    /\ Len(written) >= 1

\* C17: while an async_write is in flight the queue is not empty and its
\* front is the record being written; a record leaves the queue only from
\* the front, in the completion handler of its own write.
C17_FrontOwnedByWrite ==
    /\ [](/\ \A i \in 1..Len(writeOps) :
                 writeOps[i].kind = "write" =>
                     /\ mWriteQueue # <<>>
                     /\ Head(mWriteQueue) = writeOps[i].msg
           /\ "pop_empty" \notin trace)
    /\ [][~IsPrefix(mWriteQueue, mWriteQueue') =>
              /\ mWriteQueue # <<>>
              /\ mWriteQueue' = Tail(mWriteQueue)
              /\ \E i \in 1..Len(writeOps) :
                     /\ writeOps[i] = [kind |-> "write", msg |-> Head(mWriteQueue)]
                     /\ \A j \in 1..Len(writeOps') : writeOps'[j] # writeOps[i]]_vars

C17_Witness ==
    /\ Len(writeOps) = 1
    /\ writeOps[1].kind = "write"
    /\ Len(mWriteQueue) >= 2
    /\ Len(written) >= 1
    /\ mState # "CLOSING"

Accepted(id) == \E i \in 1..Len(enqueued) : enqueued[i].id = id
Written(id) == \E i \in 1..Len(written) : written[i].id = id

\* C18: with no I/O error and no drop, every message accepted by
\* sendMessage is eventually written, also one enqueued while the flush of
\* the empty queue is in flight: the flush completion issues the write of
\* the front record when the queue is not empty, and mWriting is cleared
\* only by a flush completion that finds the queue empty.
C18_AcceptedEventuallyWritten ==
    /\ \A id \in 1..MaxMsgs : Accepted(id) ~> Written(id)
    /\ []((writeOps = <<[kind |-> "flush"]>> /\ mWriteQueue # <<>>) =>
              LET q == flushCompletion([Self EXCEPT !.writeOps = <<>>], FALSE)
              IN  /\ q.mWriting
                  /\ q.writeOps = <<[kind |-> "write", msg |-> Head(mWriteQueue)]>>)
    /\ [][(mWriting /\ ~mWriting') =>
              /\ writeOps = <<[kind |-> "flush"]>>
              /\ writeOps' = <<>>
              /\ mWriteQueue = <<>>]_vars

C18_Witness ==
    /\ writeOps = <<[kind |-> "flush"]>>
    /\ mWriteQueue # <<>>
    /\ Len(written) >= 1
    /\ flushed < Len(written)
    /\ mState # "CLOSING"

\* C19: at most one asynchronous read, of a header or of a body, is
\* outstanding.
C19_SingleReadInFlight == Len(readOps) <= 1

C19_Witness ==
    /\ Len(readOps) = 1
    /\ readOps[1].kind = "body"
    /\ Len(dispatched) >= 1
    /\ lastHdr.pos > 0
    /\ rpc = "idle"

\* C20: the header buffer is empty whenever startRead runs past its abort
\* check: the assertion mIncomingHeader.size() == 0 never fails.
C20_HeaderEmptyAtStartRead == "assert_header" \notin trace

C20_Witness ==
    /\ "assert_header" \notin trace
    /\ rpc = "drain"
    /\ drained = 0
    /\ Len(dispatched) >= 1
    /\ Len(mIncomingHeader) = HDRSZ
    /\ mState # "CLOSING"

\* C21: shutdown() is never entered with mShutdownScheduled already true:
\* its double-schedule branch is not reached, and the shutdown closure is
\* posted at most once.
C21_ShutdownCalledOnce ==
    /\ "double_shutdown" \notin trace
    /\ Cardinality({i \in 1..Len(posted) : posted[i] = "shutdown"}) + sockShutdowns <= 1
    /\ mShutdownScheduled =>
           Cardinality({i \in 1..Len(posted) : posted[i] = "shutdown"}) + sockShutdowns = 1

C21_Witness ==
    /\ mShutdownScheduled
    /\ ~mDelayedShutdown
    /\ "write_failed" \in trace
    /\ "drop_noop" \in trace
    /\ "write_in_closing" \in trace
    /\ sockCloses = 1

\* C22: once the peer is CLOSING the socket is eventually shut down and
\* closed, whatever the drop mode and whether the outstanding writes succeed
\* or fail; a delayed shutdown is eventually followed by shutdown().
C22_ClosingEventuallyClosed ==
    /\ (mState = "CLOSING") ~> (sockShutdowns = 1 /\ sockCloses = 1)
    /\ mDelayedShutdown ~> mShutdownScheduled

C22_Witness ==
    /\ mDelayedShutdown
    /\ sockShutdowns = 1
    /\ sockCloses = 1
    /\ mWriteQueue # <<>>
    /\ writeOps = <<>>

\* C23: no frame is handed to the message handler by a peer that is
\* CLOSING, neither by the drain loop of startRead nor by the completion of
\* a body read.
C23_NoDispatchWhileClosing ==
    \A i \in 1..Len(dispatched) : ~dispatched[i].closing

====
